---- MODULE Spec2Model ----
(***************************************************************************)
(* Intermittent.py (src/App.py): the ARE calculator AREIntermittent        *)
(* .calculer_are, the non-indemnified-day function calcul_jni and the      *)
(* "Simuler le mois" handler of the Streamlit application.                 *)
(*                                                                         *)
(* Units.  The program computes with binary floats in euros.  The model    *)
(* computes the same formulas in exact rational arithmetic, in cents:      *)
(* an amount of x euros is the number 100*x.  Rates are kept as integer    *)
(* numerators (0.42 is 42 over 100, 0.933 is 933 over 1000, 1.76 is 176    *)
(* over 100).  round(x, 2) is the nearest integer number of cents.  When   *)
(* the exact value lies exactly half-way between two cents the float that  *)
(* the program holds is a hair above or below it, and round() follows the  *)
(* float: the model admits both outcomes there (Sens).                     *)
(***************************************************************************)
EXTENDS Integers, Sequences, FiniteSets

(***************************************************************************)
(* Exact non-negative numbers.  TLC's integers are 32 bits wide, so a      *)
(* number is kept as  i + (w + r/dr)/dw  with 0 <= w < dw, 0 <= r < dr:    *)
(* an integer part and two mixed-radix fraction digits.                    *)
(***************************************************************************)

\* <<q, r>> with a*b = q*d + r and 0 <= r < d, without forming a*b.
RECURSIVE MulDivMod(_, _, _)
MulDivMod(a, b, d) ==
    IF b = 0 THEN <<0, 0>>
    ELSE LET h == MulDivMod(a, b \div 2, d)
             add == IF b % 2 = 1 THEN a ELSE 0
             t == 2 * h[2] + (add % d)
         IN  <<2 * h[1] + (add \div d) + (t \div d), t % d>>

\* The number n/d.
Ratio(n, d) == [i |-> n \div d, w |-> n % d, dw |-> d, r |-> 0, dr |-> 1]

\* The number (a*b)/d, for a product a*b too wide to form.
RatioProduit(a, b, d) ==
    LET qr == MulDivMod(a, b, d)
    IN  [i |-> qr[1], w |-> qr[2], dw |-> d, r |-> 0, dr |-> 1]

\* Carry of the first fraction digit into the integer part.
Norm(X) == [X EXCEPT !.i = X.i + (X.w \div X.dw), !.w = X.w % X.dw]

\* X + Y for Y a plain fraction (Y.dr = 1).  A plain X (X.dr = 1) is
\* re-expressed over Y.dw, its remainder becoming the second digit; a
\* mixed X needs Y.dw to divide X.dw.
Plus(X, Y) ==
    IF X.dr = 1
    THEN LET qr == MulDivMod(X.w, Y.dw, X.dw)
         IN  Norm([i |-> X.i + Y.i, w |-> qr[1] + Y.w, dw |-> Y.dw,
                   r |-> qr[2], dr |-> X.dw])
    ELSE Norm([X EXCEPT !.i = X.i + Y.i,
                        !.w = X.w + Y.w * (X.dw \div Y.dw)])

\* X * p for a small non-negative integer p.
Fois(X, p) ==
    LET cr == MulDivMod(X.r, p, X.dr)
        ww == X.w * p + cr[1]
    IN  [X EXCEPT !.i = X.i * p + (ww \div X.dw), !.w = ww % X.dw, !.r = cr[2]]

EstEntier(X) == X.w = 0 /\ X.r = 0
LtEntier(X, t) == X.i < t
GtEntier(X, t) == X.i > t \/ (X.i = t /\ ~EstEntier(X))
LeEntier(X, t) == ~GtEntier(X, t)

\* X <= Y, X = Y for two numbers over the same radices.
Le(X, Y) ==
    \/ X.i < Y.i
    \/ X.i = Y.i /\ X.w < Y.w
    \/ X.i = Y.i /\ X.w = Y.w /\ X.r <= Y.r
Egal(X, Y) == X.i = Y.i /\ X.w = Y.w /\ X.r = Y.r

\* max(t, X) for an integer t, over X's radices.
MaxEntier(t, X) ==
    IF LtEntier(X, t) THEN [X EXCEPT !.i = t, !.w = 0, !.r = 0] ELSE X

\* math.ceil(X)
Plafond(X) == IF EstEntier(X) THEN X.i ELSE X.i + 1

\* The directions round() can take on an exact half.
Sens == {"bas", "haut"}

\* The integer nearest to X*p/q; on an exact half, the lower or the upper
\* neighbour according to sens.
ArrondiQuot(X, p, q, sens) ==
    LET E == MulDivMod(X.i, 2 * p, 2 * q)
        Y == Fois([X EXCEPT !.i = 0], 2 * p)
        num == E[2] + Y.i + q
        k == E[1] + (num \div (2 * q))
        moitie == (num % (2 * q) = 0) /\ EstEntier(Y)
    IN  IF moitie /\ sens = "bas" THEN k - 1 ELSE k

\* round(x, 2) of an amount X in cents: the outcomes round() can give.
Arrondis(X) == {ArrondiQuot(X, 1, 1, s) : s \in Sens}

(***************************************************************************)
(* class AREIntermittent: constants, in cents and integer rate numerators. *)
(***************************************************************************)
AJ_MINIMALE == 3171
SMIC_JOURNALIER == 6000

PARAMS ==
    [x \in {8, 10} |->
        IF x = 8
        THEN [seuil_salaire |-> 1440000, taux_salaire_inf |-> 42,
              taux_salaire_sup |-> 5, seuil_heures |-> 720,
              taux_heures_inf |-> 26, taux_heures_sup |-> 8,
              partie_c |-> 40, plancher |-> 3834]
        ELSE [seuil_salaire |-> 1370000, taux_salaire_inf |-> 36,
              taux_salaire_sup |-> 5, seuil_heures |-> 690,
              taux_heures_inf |-> 26, taux_heures_sup |-> 8,
              partie_c |-> 70, plancher |-> 4443]]

\* diviseur_annualisation = 1.76, as 176 over 100
diviseur_annualisation == 176

(***************************************************************************)
(* calculer_are, value by value.  salaire is in cents; heures, cachets and *)
(* jours are integers.                                                     *)
(***************************************************************************)

\* Mutant: the default of 365 days taken when jours_reference is not positive.
sjr_jours_par_defaut(salaire, jours) ==
    IF jours > 0 THEN Ratio(salaire, jours) ELSE Ratio(salaire, 365)

\* sjr = salaire / jours_reference if jours_reference > 0, else 0
sjr(salaire, jours) == IF jours > 0 THEN Ratio(salaire, jours) ELSE Ratio(0, 1)

\* 0.70 * sjr
partie_sjr_70pc(salaire, jours) ==
    IF jours > 0 THEN Ratio(70 * salaire, 100 * jours) ELSE Ratio(0, 1)

\* partie_a_grok = max(AJ_MINIMALE, 0.70 * sjr)
partie_a_grok(salaire, jours) ==
    MaxEntier(AJ_MINIMALE, partie_sjr_70pc(salaire, jours))

\* Mutant: the division by 12 left out of partie_b_grok.
partie_b_grok_sans_division(cachets) == Ratio(1227 * cachets, 1)

\* partie_b_grok = 12.27 * total_cachets_12mois / 12
partie_b_grok(cachets) == Ratio(1227 * cachets, 12)

\* Mutant: above seuil_salaire, the part of the salary below the threshold
\* left out.
partie_a_sans_seuil(salaire) ==
    LET params == PARAMS[8]
    IN  IF salaire <= params.seuil_salaire
        THEN RatioProduit(params.taux_salaire_inf * salaire, AJ_MINIMALE,
                          10000 * 5000)
        ELSE RatioProduit(params.taux_salaire_sup
                                * (salaire - params.seuil_salaire),
                          AJ_MINIMALE, 10000 * 5000)

\* Mutant: above seuil_salaire, taux_salaire_sup applied to the whole salary.
partie_a_taux_sup_partout(salaire) ==
    LET params == PARAMS[8]
    IN  IF salaire <= params.seuil_salaire
        THEN RatioProduit(params.taux_salaire_inf * salaire, AJ_MINIMALE,
                          10000 * 5000)
        ELSE RatioProduit(params.taux_salaire_sup * salaire,
                          AJ_MINIMALE, 10000 * 5000)

\* Partie A (Salaire): a, by the two branches on seuil_salaire.
partie_a(salaire) ==
    LET params == PARAMS[8]
    IN  IF salaire <= params.seuil_salaire
        THEN RatioProduit(params.taux_salaire_inf * salaire, AJ_MINIMALE,
                          10000 * 5000)
        ELSE RatioProduit(params.taux_salaire_inf * params.seuil_salaire
                            + params.taux_salaire_sup
                                * (salaire - params.seuil_salaire),
                          AJ_MINIMALE, 10000 * 5000)

\* Mutant: taux_heures_inf applied to all the hours, the threshold ignored.
partie_b_taux_unique(heures) ==
    Ratio(AJ_MINIMALE * PARAMS[8].taux_heures_inf * heures, 100 * 507)

\* Partie B (Heures): b, by the two branches on seuil_heures.
partie_b(heures) ==
    LET params == PARAMS[8]
    IN  IF heures <= params.seuil_heures
        THEN Ratio(AJ_MINIMALE * params.taux_heures_inf * heures, 100 * 507)
        ELSE Ratio(AJ_MINIMALE
                     * (params.taux_heures_inf * params.seuil_heures
                        + params.taux_heures_sup
                            * (heures - params.seuil_heures)),
                   100 * 507)

\* Partie C (Fixe): c = AJ_MINIMALE * params["partie_c"]
partie_c == Ratio(AJ_MINIMALE * PARAMS[8].partie_c, 100)

\* Mutant: the plancher not applied.
are_brute_sans_plancher(annexe, salaire, heures, cachets, jours) ==
    IF annexe = 10
    THEN Plus(partie_a_grok(salaire, jours), partie_b_grok(cachets))
    ELSE Plus(Plus(partie_a(salaire), partie_b(heures)), partie_c)

\* are_brute of a supported annexe, the plancher applied.
are_brute(annexe, salaire, heures, cachets, jours) ==
    IF annexe = 10
    THEN MaxEntier(PARAMS[10].plancher,
                   Plus(partie_a_grok(salaire, jours), partie_b_grok(cachets)))
    ELSE MaxEntier(PARAMS[8].plancher,
                   Plus(Plus(partie_a(salaire), partie_b(heures)), partie_c))

\* Mutant: the social deduction never applied.
are_nette_sans_prelevement(brute) == [p |-> 1, q |-> 1]

\* Mutant: the social deduction applied whatever are_brute is.
are_nette_toujours_prelevee(brute) == [p |-> 933, q |-> 1000]

\* are_nette = are_brute * 0.933 if are_brute > SMIC_JOURNALIER else are_brute,
\* as the factor p/q applied to are_brute.
are_nette(brute) ==
    IF GtEntier(brute, SMIC_JOURNALIER) THEN [p |-> 933, q |-> 1000]
    ELSE [p |-> 1, q |-> 1]

RECURSIVE PGCD(_, _)
PGCD(m, n) == IF n = 0 THEN m ELSE PGCD(n, m % n)

\* Mutant: the divisor applied to every annexe.
are_nette_journaliere_final_toutes_annexes(annexe, f) ==
    LET g == PGCD(f.p * 100, f.q * diviseur_annualisation)
    IN  [p |-> (f.p * 100) \div g, q |-> (f.q * diviseur_annualisation) \div g]

\* are_nette_journaliere_final: are_nette / 1.76 for annexe 10, are_nette
\* otherwise; the factor f of are_nette, in lowest terms.
are_nette_journaliere_final(annexe, f) ==
    IF annexe = 10
    THEN LET g == PGCD(f.p * 100, f.q * diviseur_annualisation)
         IN  [p |-> (f.p * 100) \div g, q |-> (f.q * diviseur_annualisation) \div g]
    ELSE f

\* round(are_brute * p/q, 2) once round(are_brute, 2) is known to be brut:
\* the value with factor 1 is the float are_brute itself and rounds as it did.
ArrondisFacteur(brute, f, brut) ==
    IF f.p = 1 /\ f.q = 1 THEN {brut}
    ELSE {ArrondiQuot(brute, f.p, f.q, s) : s \in Sens}

\* The values calculer_are can return for annexe 10.
RetoursAnnexe10(salaire, heures, cachets, jours) ==
    LET brute == are_brute(10, salaire, heures, cachets, jours)
        nette == are_nette(brute)
        final == are_nette_journaliere_final(10, nette)
    IN  UNION {
          {[net |-> n, brut |-> b,
            details |-> [sjr |-> d[1], partie_sjr_70pc |-> d[2],
                         partie_a_grok_final |->
                             IF GtEntier(partie_sjr_70pc(salaire, jours), AJ_MINIMALE)
                             THEN d[2] ELSE AJ_MINIMALE,
                         partie_b_grok_cachets |-> d[3],
                         diviseur_annualisation_applique |-> diviseur_annualisation,
                         are_nette_avant_diviseur |-> av]] :
             n \in ArrondisFacteur(brute, final, b),
             av \in ArrondisFacteur(brute, nette, b),
             d \in Arrondis(sjr(salaire, jours))
                     \X Arrondis(partie_sjr_70pc(salaire, jours))
                     \X Arrondis(partie_b_grok(cachets))}
          : b \in Arrondis(brute)}

\* The values calculer_are can return for annexe 8.
RetoursAnnexe8(salaire, heures, cachets, jours) ==
    LET brute == are_brute(8, salaire, heures, cachets, jours)
        nette == are_nette(brute)
        final == are_nette_journaliere_final(8, nette)
    IN  UNION {
          {[net |-> n, brut |-> b,
            details |-> [partie_a |-> d[1], partie_b |-> d[2],
                         partie_c |-> d[3],
                         diviseur_annualisation_applique |-> "Non applicable"]] :
             n \in ArrondisFacteur(brute, final, b),
             d \in Arrondis(partie_a(salaire)) \X Arrondis(partie_b(heures))
                     \X Arrondis(partie_c)}
          : b \in Arrondis(brute)}

\* calculer_are: the outcomes of one call.  PARAMS[annexe] is looked up
\* first and raises KeyError for a key PARAMS does not hold.
calculer_are(annexe, salaire, heures, cachets, jours) ==
    IF annexe \notin DOMAIN PARAMS
    THEN {[exception |-> "KeyError", st_error |-> {}, valeur |-> <<>>]}
    ELSE IF annexe = 10
    THEN {[exception |-> "aucune", st_error |-> {}, valeur |-> v] :
             v \in RetoursAnnexe10(salaire, heures, cachets, jours)}
    ELSE IF annexe = 8
    THEN {[exception |-> "aucune", st_error |-> {}, valeur |-> v] :
             v \in RetoursAnnexe8(salaire, heures, cachets, jours)}
    ELSE {[exception |-> "aucune", st_error |-> {"Annexe non supportee."},
           valeur |-> [net |-> 0, brut |-> 0, details |-> <<>>]]}

(***************************************************************************)
(* The monthly simulator.                                                  *)
(***************************************************************************)
Min(x, y) == IF x <= y THEN x ELSE y
Max(x, y) == IF x >= y THEN x ELSE y

\* Mutant: the count not capped at jours_mois.
calcul_jni_sans_plafond(annexe, heures_totales, jours_mois) ==
    IF annexe = 10
    THEN Plafond(Ratio(heures_totales * 13, 10 * 10))
    ELSE Plafond(Ratio(heures_totales * 14, 10 * 8))

\* Mutant: the integer part taken in place of math.ceil.
calcul_jni_partie_entiere(annexe, heures_totales, jours_mois) ==
    IF annexe = 10
    THEN Min(Ratio(heures_totales * 13, 10 * 10).i, jours_mois)
    ELSE Min(Ratio(heures_totales * 14, 10 * 8).i, jours_mois)

\* calcul_jni: min(math.ceil((heures_totales * 1.3) / 10), jours_mois) for
\* annexe 10, min(math.ceil((heures_totales * 1.4) / 8), jours_mois) otherwise.
calcul_jni(annexe, heures_totales, jours_mois) ==
    IF annexe = 10
    THEN Min(Plafond(Ratio(heures_totales * 13, 10 * 10)), jours_mois)
    ELSE Min(Plafond(Ratio(heures_totales * 14, 10 * 8)), jours_mois)

\* heures_totales = (cachets * heures_cachet) + (cachets_repet * 6)
\*                  + (jours_maladie * 8) + heures_formation + cdd_heures
heures_totales(s) ==
    (s.cachets * s.heures_cachet) + (s.cachets_repet * 6) + (s.jours_maladie * 8)
        + s.heures_formation + s.cdd_heures

\* jours_indem = max(jours_mois - jni, 0)
jours_indem(jours_mois, jni) == Max(jours_mois - jni, 0)

\* are_mensuelle = are_journaliere_override * jours_indem
are_mensuelle(are_journaliere_override, jours) == are_journaliere_override * jours

\* new_row, the columns the simulation fills with numbers.
new_row(s, heures, mensuelle) ==
    [Type |-> "Mensuel", Annexe |-> s.annexe, Cachets |-> s.cachets,
     Cachets6h |-> s.cachets_repet, Heures |-> heures,
     AREJournaliere |-> s.are_journaliere_override,
     AREMensuelle |-> ArrondiQuot(Ratio(mensuelle, 1), 1, 1, "haut")]

(***************************************************************************)
(* The calls of calculer_are.  The arguments range over the function's     *)
(* signature: an annexe PARAMS does not hold, and a jours_reference that   *)
(* is not positive, are arguments a caller can pass.                       *)
(***************************************************************************)
MaxCachets == 3
MaxPaliers == 3
PasSalaire == 480000

AnnexeSet == {7, 8, 10}
SalaireSet ==
    {0, 853659, 1321800, 1440000, 1440001, 1500000}
        \cup {PasSalaire * k : k \in 1..MaxPaliers}
HeuresSet == {0, 720, 721, 732, 800}
CachetsSet == (0..MaxCachets) \cup {14, 61}
JoursSet == {-1, 0, 1, 319, 365}

VARIABLES
    appel,      \* the arguments of the call of calculer_are
    pc,         \* "pret": not called yet; "retourne"; "leve": an exception left it
    retour,     \* what the call gave: exception, st.error messages, value
    saisie,     \* Simulateur Mensuel: the widget values of the run
    mois,       \* Simulateur Mensuel: what the run computed and displays
    historique  \* st.session_state.historique, the rows in order

vars == <<appel, pc, retour, saisie, mois, historique>>

SansRetour == [exception |-> "aucune", st_error |-> {}, valeur |-> <<>>]
SansSaisie == [annexe |-> 10, jours_mois |-> 30, cachets |-> 0, heures_cachet |-> 12,
               cachets_repet |-> 0, jours_maladie |-> 0, heures_formation |-> 0,
               cdd_heures |-> 0, are_journaliere_override |-> 4970]
SansMois == [affiche |-> FALSE, heures_totales |-> 0, jni |-> 0, jours_indem |-> 0,
             are_mensuelle |-> 0]

Init ==
    /\ appel \in [annexe : AnnexeSet, salaire : SalaireSet, heures : HeuresSet,
                  cachets : CachetsSet, jours : JoursSet]
    /\ pc = "pret"
    /\ retour = SansRetour
    /\ saisie = SansSaisie
    /\ mois = SansMois
    /\ historique = <<>>

\* result = AREIntermittent.calculer_are(annexe, salaire_brut_12mois, ...)
CalculerARE ==
    /\ pc = "pret"
    /\ \E issue \in calculer_are(appel.annexe, appel.salaire, appel.heures,
                                 appel.cachets, appel.jours) :
          /\ retour' = issue
          /\ pc' = IF issue.exception = "aucune" THEN "retourne" ELSE "leve"
    /\ UNCHANGED <<appel, saisie, mois, historique>>

Next == CalculerARE

Spec == Init /\ [][Next]_vars

(***************************************************************************)
(* The Simulateur Mensuel page and the Historique page.                    *)
(***************************************************************************)
MaxHistorique == 1

SaisieSet ==
    [annexe : AnnexeSet, jours_mois : {0, 30, 31},
     cachets : {0, 1}, heures_cachet : {12},
     cachets_repet : {0, 1}, jours_maladie : {0, 1},
     heures_formation : {0}, cdd_heures : {0, 143, 200},
     are_journaliere_override : {0, 4970}]

InitMensuel ==
    /\ appel = [annexe |-> 10, salaire |-> 853659, heures |-> 732,
                cachets |-> 61, jours |-> 319]
    /\ pc = "pret"
    /\ retour = SansRetour
    /\ saisie = SansSaisie
    /\ mois = SansMois
    /\ historique = <<>>

\* if st.button("Simuler le mois"): the whole handler, the row appended to
\* the historique included.
SimulerMois ==
    /\ Len(historique) < MaxHistorique
    /\ \E s \in SaisieSet :
          LET heures == heures_totales(s)
              jni == calcul_jni(s.annexe, heures, s.jours_mois)
              indem == jours_indem(s.jours_mois, jni)
              mensuelle == are_mensuelle(s.are_journaliere_override, indem)
          IN  /\ saisie' = s
              /\ mois' = [affiche |-> TRUE, heures_totales |-> heures, jni |-> jni,
                          jours_indem |-> indem, are_mensuelle |-> mensuelle]
              /\ historique' = Append(historique, new_row(s, heures, mensuelle))
    /\ UNCHANGED <<appel, pc, retour>>

\* Historique page: st.data_editor with num_rows="dynamic", a row deleted.
\* The run shows the Historique page: the simulator's widgets and its
\* display are not part of it.
SupprimerLigne ==
    /\ \E k \in 1..Len(historique) :
          historique' = [j \in 1..(Len(historique) - 1) |->
                            IF j < k THEN historique[j] ELSE historique[j + 1]]
    /\ saisie' = SansSaisie
    /\ mois' = SansMois
    /\ UNCHANGED <<appel, pc, retour>>

NextMensuel == SimulerMois \/ SupprimerLigne

SpecMensuel == InitMensuel /\ [][NextMensuel]_vars

(***************************************************************************)
(* The properties.                                                         *)
(***************************************************************************)
Retourne == pc = "retourne"
Valeur == retour.valeur
BruteAppel == are_brute(appel.annexe, appel.salaire, appel.heures, appel.cachets,
                        appel.jours)

\* C1: calling calculer_are with an annexe other than 8 or 10 does not
\* raise: it signals the error with st.error and returns the zeroed result
\* {net: 0, brut: 0, details: {}}.
C1_UnsupportedReturnsZeroed ==
    (pc # "pret" /\ appel.annexe \notin {8, 10}) =>
        /\ pc = "retourne"
        /\ retour.exception = "aucune"
        /\ retour.st_error # {}
        /\ Valeur.net = 0
        /\ Valeur.brut = 0
        /\ DOMAIN Valeur.details = {}

\* C2: the gross daily benefit calculer_are returns is at least the floor
\* of the category: 44.43 for annexe 10, 38.34 for annexe 8.
C2_BrutAtLeastFloor ==
    Retourne =>
        /\ appel.annexe = 10 => Valeur.brut >= 4443
        /\ appel.annexe = 8 => Valeur.brut >= 3834

\* C2 witness: an artist call whose parts sum below the floor returned the
\* floor itself.
C2_Witness ==
    /\ Retourne
    /\ appel.annexe = 10
    /\ appel.cachets = 0
    /\ appel.salaire = 0
    /\ Valeur.brut = 4443

\* C3, as claimed: the returned net is never greater than the returned
\* gross, and the two are equal whenever the gross is <= 60.0.
C3_AsClaimed ==
    Retourne =>
        /\ Valeur.net <= Valeur.brut
        /\ Valeur.brut <= 6000 => Valeur.net = Valeur.brut

\* C3, amended: the returned net is never greater than the returned gross;
\* whenever the unrounded gross is <= 60.0, annexe 8 returns net equal to
\* the gross, and annexe 10 reports are_nette_avant_diviseur equal to the
\* gross and returns a net strictly below it.
C3_NetAtMostBrut ==
    Retourne =>
        /\ Valeur.net <= Valeur.brut
        /\ LeEntier(BruteAppel, 6000) =>
              IF appel.annexe = 8
              THEN Valeur.net = Valeur.brut
              ELSE /\ Valeur.details.are_nette_avant_diviseur = Valeur.brut
                   /\ Valeur.net < Valeur.brut

\* C3 witness: a technician call with a gross between the floor and 60.0
\* returned net equal to the gross.
C3_Witness ==
    /\ Retourne
    /\ appel.annexe = 8
    /\ LeEntier(BruteAppel, 6000)
    /\ Valeur.brut > 3834
    /\ Valeur.net = Valeur.brut

\* C4: with annexe, hours, cachets and reference days fixed, a salary at
\* least as large gives a gross at least as large: both unrounded and as
\* returned (round() taking the same direction on an exact half).
C4_MonotoneInSalary ==
    Retourne =>
        \A s2 \in SalaireSet :
            s2 >= appel.salaire =>
                LET brute2 == are_brute(appel.annexe, s2, appel.heures,
                                        appel.cachets, appel.jours)
                IN  /\ Le(BruteAppel, brute2)
                    /\ \A d \in Sens :
                          Valeur.brut = ArrondiQuot(BruteAppel, 1, 1, d) =>
                              Valeur.brut <= ArrondiQuot(brute2, 1, 1, d)

\* C4 witness: a technician call at the salary threshold whose gross is
\* strictly below the gross of a larger salary of the model.
C4_Witness ==
    /\ Retourne
    /\ appel.annexe = 8
    /\ appel.salaire = 1440000
    /\ \E s2 \in SalaireSet :
          /\ s2 > appel.salaire
          /\ Valeur.brut < ArrondiQuot(are_brute(8, s2, appel.heures, appel.cachets,
                                                  appel.jours), 1, 1, "haut")

\* C5: for every annexe value, every total of hours >= 0 and every
\* jours_mois >= 0, the non-indemnified day count of the simulation is not
\* negative and at most jours_mois.
C5_JniAtMostDaysInMonth ==
    mois.affiche => (0 <= mois.jni /\ mois.jni <= saisie.jours_mois)

\* C5 witness: a simulation whose hours give more days than the month has,
\* the count capped at the month's 30 days.
C5_Witness ==
    /\ mois.affiche
    /\ saisie.annexe = 7
    /\ saisie.jours_mois = 30
    /\ mois.heures_totales = 200
    /\ mois.jni = 30

\* The arguments of scenario 2: annexe 8, salary 15000, 800 hours, 365 days.
Scenario2 ==
    /\ Retourne
    /\ appel.annexe = 8
    /\ appel.salaire = 1500000
    /\ appel.heures = 800
    /\ appel.jours = 365

\* C6, as claimed: scenario 2 reports partie_a = 38.30, partie_b = 12.06,
\* partie_c = 12.68, brut = 63.04 and net = 58.82.
C6_AsClaimed ==
    Scenario2 =>
        /\ Valeur.details.partie_a = 3830
        /\ Valeur.details.partie_b = 1206
        /\ Valeur.details.partie_c = 1268
        /\ Valeur.brut = 6304
        /\ Valeur.net = 5882

\* C6, amended: scenario 2 reports partie_a = 38.55, partie_b = 12.11,
\* partie_c = 12.68, brut = 63.34 and, the gross being above 60 and no
\* divisor applying, net = 59.10.
C6_Scenario2 ==
    Scenario2 =>
        /\ Valeur.details.partie_a = 3855
        /\ Valeur.details.partie_b = 1211
        /\ Valeur.details.partie_c = 1268
        /\ Valeur.brut = 6334
        /\ Valeur.net = 5910
        /\ Valeur.details.diviseur_annualisation_applique = "Non applicable"

\* C6 witness: the call of scenario 2 returned.
C6_Witness == Scenario2 /\ Valeur.brut = 6334 /\ appel.cachets = 0

\* The arguments of scenario 1: annexe 10, salary 8536.59, 732 hours,
\* 61 cachets, 319 days.
Scenario1 ==
    /\ Retourne
    /\ appel.annexe = 10
    /\ appel.salaire = 853659
    /\ appel.heures = 732
    /\ appel.cachets = 61
    /\ appel.jours = 319

\* C7, as claimed: scenario 1 reports sjr = 26.76, partA = 31.71,
\* partB = 62.37, brut = 94.08, net before divisor = 87.74 and final
\* net = 49.85, each within one cent.
C7_AsClaimed ==
    Scenario1 =>
        /\ Valeur.details.sjr = 2676
        /\ Valeur.details.partie_a_grok_final = 3171
        /\ Valeur.details.partie_b_grok_cachets = 6237
        /\ Valeur.brut = 9408
        /\ Valeur.details.are_nette_avant_diviseur \in 8773..8775
        /\ Valeur.net \in 4984..4986

\* C7, amended: scenario 1 reports sjr = 26.76, partA = 31.71,
\* partB = 62.37, brut = 94.08, net before divisor = 87.78 and final
\* net = 49.87.
C7_Scenario1 ==
    Scenario1 =>
        /\ Valeur.details.sjr = 2676
        /\ Valeur.details.partie_sjr_70pc = 1873
        /\ Valeur.details.partie_a_grok_final = 3171
        /\ Valeur.details.partie_b_grok_cachets = 6237
        /\ Valeur.brut = 9408
        /\ Valeur.details.are_nette_avant_diviseur = 8778
        /\ Valeur.net = 4987

\* C7 witness: the call of scenario 1 returned.
C7_Witness == Scenario1 /\ Valeur.net = 4987

\* The two-piece reference formula of C8, with the constants of the claim:
\* 31.71 x (0.42 x min(salary, 14400) + 0.05 x max(0, salary - 14400)) / 5000,
\* 31.71 x (0.26 x min(hours, 720) + 0.08 x max(0, hours - 720)) / 507,
\* 31.71 x 0.40.
RefSalaryPart(salaire) ==
    RatioProduit(42 * Min(salaire, 1440000) + 5 * Max(0, salaire - 1440000),
                 3171, 50000000)
RefHoursPart(heures) ==
    Ratio(3171 * (26 * Min(heures, 720) + 8 * Max(0, heures - 720)), 50700)
RefFixedPart == Ratio(3171 * 40, 100)
RefBrut(salaire, heures) ==
    MaxEntier(3834, Plus(Plus(RefSalaryPart(salaire), RefHoursPart(heures)),
                         RefFixedPart))

\* C8: for annexe 8 the if/else computation equals the two-piece reference
\* formula, part by part and for the gross with its floor of 38.34, the
\* exact thresholds included.
C8_TwoPieceFormula ==
    (Retourne /\ appel.annexe = 8) =>
        /\ Egal(partie_a(appel.salaire), RefSalaryPart(appel.salaire))
        /\ Egal(partie_b(appel.heures), RefHoursPart(appel.heures))
        /\ Egal(partie_c, RefFixedPart)
        /\ Valeur.details.partie_a \in Arrondis(RefSalaryPart(appel.salaire))
        /\ Valeur.details.partie_b \in Arrondis(RefHoursPart(appel.heures))
        /\ Valeur.details.partie_c \in Arrondis(RefFixedPart)
        /\ Valeur.brut \in Arrondis(RefBrut(appel.salaire, appel.heures))

\* C8 witness: a technician call at both exact thresholds, salary 14400
\* and 720 hours, returned the gross of the reference formula, 62.75.
C8_Witness ==
    /\ Retourne
    /\ appel.annexe = 8
    /\ appel.salaire = 1440000
    /\ appel.heures = 720
    /\ Valeur.details.partie_a = 3836
    /\ Valeur.brut = 6275

\* C9: the divisor 1.76 applies to the net of annexe 10 only: annexe 10
\* returns (net after social deduction) / 1.76 and the undivided gross;
\* annexe 8 returns the net after social deduction, undivided.
C9_DivisorArtistOnly ==
    Retourne =>
        LET deduit == GtEntier(BruteAppel, 6000)
        IN  /\ Valeur.brut \in Arrondis(BruteAppel)
            /\ appel.annexe = 10 =>
                  /\ Valeur.net \in
                        {ArrondiQuot(BruteAppel, IF deduit THEN 933 ELSE 100,
                                     IF deduit THEN 1760 ELSE 176, d) : d \in Sens}
                  /\ 176 * Valeur.net - 100 * Valeur.details.are_nette_avant_diviseur
                        \in (-138)..138
            /\ appel.annexe = 8 =>
                  Valeur.net \in
                      IF deduit
                      THEN {ArrondiQuot(BruteAppel, 933, 1000, d) : d \in Sens}
                      ELSE {Valeur.brut}

\* C9 witness: an artist call at the floor returned gross 44.43 and net
\* 44.43 / 1.76 = 25.24.
C9_Witness ==
    /\ Retourne
    /\ appel.annexe = 10
    /\ Valeur.brut = 4443
    /\ Valeur.details.are_nette_avant_diviseur = 4443
    /\ Valeur.net = 2524

\* ceil(n / d) for integers n >= 0, d > 0.
CeilDiv(n, d) == (n + d - 1) \div d

\* C10: the simulation gives nonIndemnifiedDays = min(ceil(hours x 1.3 / 10),
\* daysInMonth) for annexe 10 and min(ceil(hours x 1.4 / 8), daysInMonth)
\* for annexe 8, indemnifiableDays = max(daysInMonth - nonIndemnifiedDays, 0)
\* and monthlyBenefit = override x indemnifiableDays; annexe 8 with 143
\* hours and 30 days gives 26, 4 and 4 x override.
C10_MonthArithmetic ==
    mois.affiche =>
        /\ saisie.annexe = 10 =>
              mois.jni = Min(CeilDiv(13 * mois.heures_totales, 100), saisie.jours_mois)
        /\ saisie.annexe = 8 =>
              mois.jni = Min(CeilDiv(14 * mois.heures_totales, 80), saisie.jours_mois)
        /\ mois.jours_indem = Max(saisie.jours_mois - mois.jni, 0)
        /\ mois.are_mensuelle = saisie.are_journaliere_override * mois.jours_indem
        /\ (saisie.annexe = 8 /\ mois.heures_totales = 143 /\ saisie.jours_mois = 30) =>
              /\ mois.jni = 26
              /\ mois.jours_indem = 4
              /\ mois.are_mensuelle = 4 * saisie.are_journaliere_override

\* C10 witness: scenario 4, a technician month of 30 days with 143 CDD
\* hours and a daily benefit of 49.70, gave 26, 4 and 198.80.
C10_Witness ==
    /\ mois.affiche
    /\ saisie.annexe = 8
    /\ saisie.cdd_heures = 143
    /\ mois.heures_totales = 143
    /\ saisie.jours_mois = 30
    /\ mois.jni = 26
    /\ mois.jours_indem = 4
    /\ mois.are_mensuelle = 19880
    /\ historique[Len(historique)].AREMensuelle = 19880

\* C11: when jours_reference is <= 0, calculer_are does not fail for a
\* supported annexe: it returns a result computed with sjr = 0; for annexe 10
\* the result reports sjr = 0 and partA = 31.71, and its gross is still at
\* least 44.43.
C11_NonPositiveReferenceDays ==
    (pc # "pret" /\ appel.annexe \in {8, 10} /\ appel.jours <= 0) =>
        /\ pc = "retourne"
        /\ retour.exception = "aucune"
        /\ retour.st_error = {}
        /\ appel.annexe = 10 =>
              /\ Valeur.details.sjr = 0
              /\ Valeur.details.partie_sjr_70pc = 0
              /\ Valeur.details.partie_a_grok_final = 3171
              /\ Valeur.brut >= 4443
              /\ Valeur.brut \in Arrondis(Ratio(Max(4443 * 12,
                                                    3171 * 12 + 1227 * appel.cachets), 12))

\* C11 witness: an artist call with a salary of 8536.59, 61 cachets and
\* jours_reference = 0 returned sjr = 0, partA = 31.71 and gross 94.08.
C11_Witness ==
    /\ Retourne
    /\ appel.annexe = 10
    /\ appel.salaire = 853659
    /\ appel.cachets = 61
    /\ appel.jours = 0
    /\ Valeur.details.sjr = 0
    /\ Valeur.details.partie_a_grok_final = 3171
    /\ Valeur.brut = 9408

\* The results calculer_are can return for annexe 8 with the salary of the
\* call replaced by s2, hours and reference days kept.
RetoursSalaire(s2) ==
    {r.valeur : r \in calculer_are(8, s2, appel.heures, appel.cachets, appel.jours)}

\* C12: the net conversion does not preserve the order across the social
\* threshold.  For annexe 8 a gross of at most 60.0 (the comparison of line
\* 119 is strict, so 60.0 itself is on this side) is returned as the net; a
\* gross g with 60 < g < 60/0.933 gives the net
\* 0.933 x g, below 60 and below the gross.  So a larger salary s2 whose
\* gross g2 lies above 60 with 0.933 x g2 below the gross g1 <= 60 of the
\* call has a gross at least as large and a net no larger; and for salary
\* 13218 with 720 hours there is such a larger salary whose net is strictly
\* smaller (59.60 against 58.54 at salary 14400).
C12_NetNotOrderPreserving ==
    (Retourne /\ appel.annexe = 8) =>
        /\ LeEntier(BruteAppel, 6000) => Valeur.net = Valeur.brut
        /\ (GtEntier(BruteAppel, 6000) /\ LtEntier(Fois(BruteAppel, 933), 6000000)) =>
              /\ Valeur.net \in {ArrondiQuot(BruteAppel, 933, 1000, d) : d \in Sens}
              /\ Valeur.net <= 6000
              /\ Valeur.net < Valeur.brut
        /\ \A s2 \in SalaireSet :
              LET brute2 == are_brute(8, s2, appel.heures, appel.cachets, appel.jours)
              IN  (/\ s2 > appel.salaire
                   /\ LeEntier(BruteAppel, 6000)
                   /\ GtEntier(brute2, 6000)
                   /\ ~Le(Fois(BruteAppel, 1000), Fois(brute2, 933))) =>
                      \A r2 \in RetoursSalaire(s2) :
                          Valeur.brut <= r2.brut /\ Valeur.net >= r2.net
        /\ (appel.salaire = 1321800 /\ appel.heures = 720) =>
              \E s2 \in SalaireSet :
                  /\ s2 > appel.salaire
                  /\ \A r2 \in RetoursSalaire(s2) :
                        Valeur.brut <= r2.brut /\ Valeur.net > r2.net

\* C12 witness: the technician call with salary 13218 and 720 hours returned
\* gross 59.60 and net 59.60, and salary 14400 gives gross 62.75 and net 58.54.
C12_Witness ==
    /\ Retourne
    /\ appel.annexe = 8
    /\ appel.salaire = 1321800
    /\ appel.heures = 720
    /\ Valeur.brut = 5960
    /\ Valeur.net = 5960
    /\ \A r2 \in RetoursSalaire(1440000) : r2.brut = 6275 /\ r2.net = 5854

====
